---------------------------- MODULE Spec2Model ----------------------------
(***************************************************************************)
(* Model of the trade-ingestion engines of lropero/edge.                   *)
(*                                                                         *)
(* The repository holds several generations of the same terminal program.  *)
(* Three of them keep candle windows and are modelled here:                *)
(*   "polarvol"  src/edge.js lines 1-399: one timeframe of `size` ms,      *)
(*               integer candle ids, analyze() with a threshold;           *)
(*   "multi"     src/unnamed/part_000: TIMEFRAMES, date-prefixed string    *)
(*               candle ids, calculateLevel(), analyze(timeframe);         *)
(*   "five"      src/edge.js lines 401-814: one 5-minute timeframe,        *)
(*               date-prefixed string candle ids, calculateLevel().        *)
(* A fourth keeps a trade history and a level but no candles:              *)
(*   "highway"   src/unnamed/part_002: calculateLevel() over trades[0].    *)
(*                                                                         *)
(* Numbers.  Prices and quantities are JavaScript doubles parsed from      *)
(* decimal strings; the model uses naturals (prices in ticks) and exact    *)
(* rational arithmetic, and NaN is a distinguished value.  Strings are     *)
(* sequences of UTF-16 code units, so that Array.prototype.sort() compares *)
(* what the program compares.  Rendering state (boxes, screen, colours) is *)
(* not part of the model.                                                  *)
(***************************************************************************)
EXTENDS Integers, Sequences, FiniteSets, TLC

VARIABLES
  program,      \* which script is running
  options,      \* polarvol: options.size as given on the command line
  size,         \* polarvol: store.size, candle width in ms
  buffer,       \* polarvol: store.buffer, retention cap
  threshold,    \* polarvol: store.threshold, in tenths (10 = 1.0)
  candles,      \* store.candles: timeframe -> window, in Object.keys order
  deltas,       \* store.deltas
  trade,        \* store.trade / store.lastTrade: <<>> when undefined
  trades,       \* store.trades, newest first
  alert,        \* polarvol: store.alert, 0 when unset
  messages,     \* store.messages
  charts,       \* multi: store.charts
  chartsActive, \* multi: store.chartsActive
  currentChart, \* multi: store.currentChart, 0 when undefined
  crashed,      \* an uncaught TypeError has ended the process
  ingested,     \* number of trade records delivered in this behaviour
  input,        \* the record most recently handed to updateStore: <<>> at start
  created,      \* timeframes in which the last step created a candle
  evicted,      \* the candles the last step deleted, as <<timeframe, key>>
  evals,        \* the analyze() runs of the last step, in call order
  emitted,      \* every signal raised so far, in order
  removed,      \* every candle deleted so far, as <<timeframe, key>>
  judged,       \* the last candle of every analyze() run so far, in order
  pc,           \* the trade handler in progress as <<record, line reached>>,
                \* <<>> when every handler has returned
  sockets,      \* every WebSocket created so far, in order of creation
  webSocket,    \* store.webSocket, as an index into sockets
  timers,       \* polarvol: store.timers.list and store.timers.reconnect
  line,         \* the highway line written last: <<>> before the first
  logged        \* polarvol: the number of calls of log() so far

vars == <<program, options, size, buffer, threshold, candles, deltas, trade, trades,
          alert, messages, charts, chartsActive, currentChart, crashed,
          ingested, input, created, evicted, evals, emitted, removed, judged,
          pc, sockets, webSocket, timers, line, logged>>

---------------------------------------------------------------------------
(* Bounds of the model *)

\* number of trade records delivered in one behaviour
MaxTrades == 4

\* retention cap of every window of the string-id programs
\* (CANDLES_LENGTH[index], CANDLES_LENGTH), scaled down
MaxCandles == 2

\* length of DeltaHistory (HIGHWAY_DELTAS, DELTAS_LENGTH), scaled down
MaxDeltas == 3

\* length of the trade history (max(GAUGES), TRADES_LENGTH), scaled down
MaxHistory == 2

\* log entries kept after the header (the 100 of messages.slice(1, 100))
MaxMessages == 3

---------------------------------------------------------------------------
(* Program constants *)

HIGHWAY_LEVEL == 368

MAX_LEVEL == 320

TIMEFRAME == 5

\* TIMEFRAMES of part_000, its first two entries
TIMEFRAMES == <<1, 3>>

CANDLES_LENGTH == [index \in 1..Len(TIMEFRAMES) |-> MaxCandles]

GAUGES == <<MaxHistory>>

Programs == {"polarvol", "multi", "five", "highway"}

---------------------------------------------------------------------------
(* JavaScript numbers and strings *)

\* the result of parseFloat on a string that starts with no digit
NaN == -1

IsNaN(x) == x = NaN

Abs(x) == IF x < 0 THEN -x ELSE x

\* Math.abs(a - b) of two parsed prices
AbsDiff(a, b) == IF IsNaN(a) \/ IsNaN(b) THEN NaN ELSE Abs(a - b)

\* the comparison turned round
LessReversed(a, b) == ~IsNaN(a) /\ ~IsNaN(b) /\ a > b

\* a < b and a > b of two parsed prices: false when either is NaN
Less(a, b) == ~IsNaN(a) /\ ~IsNaN(b) /\ a < b

Greater(a, b) == ~IsNaN(a) /\ ~IsNaN(b) /\ a > b

IsDigit(c) == c \in 48..57

RECURSIVE DigitPrefix(_)
\* the longest prefix of s made of decimal digits
DigitPrefix(s) ==
  IF s = <<>> \/ ~IsDigit(Head(s)) THEN <<>>
  ELSE <<Head(s)>> \o DigitPrefix(Tail(s))

RECURSIVE DigitsValue(_)
DigitsValue(s) ==
  IF s = <<>> THEN 0
  ELSE 10 * DigitsValue(SubSeq(s, 1, Len(s) - 1)) + (s[Len(s)] - 48)

\* parseFloat: the number the leading digits spell, NaN when there are none
ParseFloat(s) ==
  LET d == DigitPrefix(s)
  IN  IF d = <<>> THEN NaN ELSE DigitsValue(d)

RECURSIVE NumberToString(_)
\* String(n) of a natural: its decimal digits, no padding
NumberToString(n) ==
  IF n < 10 THEN <<48 + n>>
  ELSE NumberToString(n \div 10) \o <<48 + (n % 10)>>

\* s.padStart(2, '0')
PadStart2(s) == IF Len(s) < 2 THEN <<48>> \o s ELSE s

RECURSIVE StrLess(_, _)
\* a < b as Array.prototype.sort() orders strings: by code unit, a proper
\* prefix first
StrLess(a, b) ==
  IF b = <<>> THEN FALSE
  ELSE IF a = <<>> THEN TRUE
  ELSE IF Head(a) # Head(b) THEN Head(a) < Head(b)
  ELSE StrLess(Tail(a), Tail(b))

RECURSIVE SumSeq(_)
SumSeq(s) == IF s = <<>> THEN 0 ELSE Head(s) + SumSeq(Tail(s))


\* Math.round(num / den) for den > 0: halves round towards +Infinity
Round(num, den) == (2 * num + den) \div (2 * den)

Min(a, b) == IF a < b THEN a ELSE b

RECURSIVE SortStrings(_)
\* Array.prototype.sort() of a set of distinct strings
SortStrings(S) ==
  IF S = {} THEN <<>>
  ELSE LET first == CHOOSE s \in S : \A t \in S \ {s} : StrLess(s, t)
       IN  <<first>> \o SortStrings(S \ {first})

---------------------------------------------------------------------------
(* Windows: sequences of candles in Object.keys() order *)

Keys(window) == {window[i].key : i \in 1..Len(window)}

Has(window, key) == key \in Keys(window)

IndexOf(window, key) == CHOOSE i \in 1..Len(window) : window[i].key = key

\* the delete that takes the next candle enumerated along
DeleteWithNext(window, key) ==
  LET keep == {i \in 1..Len(window) :
                 /\ window[i].key # key
                 /\ IF i = 1 THEN TRUE ELSE window[i - 1].key # key}
      F[i \in 0..Len(window)] ==
        IF i = 0 THEN <<>>
        ELSE IF i \in keep THEN Append(F[i - 1], window[i]) ELSE F[i - 1]
  IN  F[Len(window)]

\* delete candles[key]
Delete(window, key) ==
  LET keep == {i \in 1..Len(window) : window[i].key # key}
      F[i \in 0..Len(window)] ==
        IF i = 0 THEN <<>>
        ELSE IF i \in keep THEN Append(F[i - 1], window[i]) ELSE F[i - 1]
  IN  F[Len(window)]

\* the new property enumerated first
PrependKey(window, candle) == <<candle>> \o window

\* candles[key] = candle for a string key that is not an array index: the
\* new property is enumerated last
AppendKey(window, candle) == Append(window, candle)

\* candles[id] = candle for an integer id: integer keys are enumerated in
\* ascending numeric order, before any other key
InsertIndex(window, candle) ==
  LET before == {i \in 1..Len(window) :
                   DigitsValue(window[i].key) < DigitsValue(candle.key)}
      n == Cardinality(before)
  IN  SubSeq(window, 1, n) \o <<candle>> \o SubSeq(window, n + 1, Len(window))

RECURSIVE DeleteWhileOver(_, _, _)
\* do { delete candles[ids[0]]; ids.shift() } while (ids.length > cap)
DeleteWhileOver(window, ids, cap) ==
  LET w == Delete(window, Head(ids))
      rest == Tail(ids)
  IN  IF Len(rest) > cap THEN DeleteWhileOver(w, rest, cap) ELSE w

\* the overflow test taken one candle too late
OverflowsLate(ids, cap) == Len(ids) > cap + 1

\* the overflow test taken one candle too early
OverflowsEarly(ids, cap) == Len(ids) >= cap

\* candleIds.length > CANDLES_LENGTH[index], ids.length > buffer
Overflows(ids, cap) == Len(ids) > cap

\* the accumulator assigned where the code adds to it
AddReplacing(total, amount) == amount

\* total += amount
Add(total, amount) == total + amount

\* values.slice(0, -1)
AllButLast(s) == IF s = <<>> THEN <<>> ELSE SubSeq(s, 1, Len(s) - 1)

\* Math.max() of no argument is -Infinity; the model needs only its sign
NegInfinity == -1

\* the least magnitude where the code takes the greatest
MinAbs(diffs) ==
  IF diffs = <<>> THEN NegInfinity
  ELSE CHOOSE m \in {Abs(diffs[i]) : i \in 1..Len(diffs)} :
         \A i \in 1..Len(diffs) : Abs(diffs[i]) >= m

\* Math.max(...diffs.map(Math.abs))
MaxAbs(diffs) ==
  IF diffs = <<>> THEN NegInfinity
  ELSE CHOOSE m \in {Abs(diffs[i]) : i \in 1..Len(diffs)} :
         \A i \in 1..Len(diffs) : Abs(diffs[i]) <= m


---------------------------------------------------------------------------
(* Adaptive level mapper *)

\* the push that drops the newest deltas of a full history
PushDeltaKeepOldest(ds, delta, maxDeltas) ==
  LET pushed == Append(ds, delta)
  IN  IF Len(pushed) > maxDeltas THEN SubSeq(pushed, 1, maxDeltas) ELSE pushed

\* deltas.push(delta), then shift while longer than maxDeltas
PushDelta(ds, delta, maxDeltas) ==
  LET pushed == Append(ds, delta)
  IN  IF Len(pushed) > maxDeltas
      THEN SubSeq(pushed, Len(pushed) - maxDeltas + 1, Len(pushed))
      ELSE pushed

\* the step truncated where the code rounds
StepFloor(delta, ds) == (8 * delta * Len(ds)) \div SumSeq(ds)

\* the average taken over the capacity of the history, not its length
StepOverCap(delta, ds) == Round(8 * delta * MaxDeltas, SumSeq(ds))

\* Math.round((delta / average) * 8), average = sum(deltas) / deltas.length
Step(delta, ds) == Round(8 * delta * Len(ds), SumSeq(ds))

\* the clamp without its upper branch
ClampBelow(level, maxLevel) ==
  IF level < -maxLevel THEN -maxLevel ELSE level

\* if (level > MAX) level = MAX else if (level < -MAX) level = -MAX
Clamp(level, maxLevel) ==
  IF level > maxLevel THEN maxLevel
  ELSE IF level < -maxLevel THEN -maxLevel
  ELSE level

\* calculateLevel pushing every delta, the zero ones too
calculateLevelPushing(price, prev, ds, maxDeltas, maxLevel) ==
  IF prev = <<>> THEN [level |-> 0, deltas |-> ds]
  ELSE LET delta == AbsDiff(price, prev[1].price)
           kept == PushDelta(ds, delta, maxDeltas)
       IN  IF Greater(delta, 0)
           THEN LET step == Step(delta, kept)
                    level == IF Less(price, prev[1].price)
                               THEN prev[1].level - step
                             ELSE prev[1].level + step
                IN  [level |-> Clamp(level, maxLevel), deltas |-> kept]
           ELSE [level |-> prev[1].level, deltas |-> kept]

\* calculateLevel(price): the level returned and store.deltas afterwards.
\* prev is store.trade (<<>> when undefined), ds is store.deltas.
calculateLevel(price, prev, ds, maxDeltas, maxLevel) ==
  IF prev = <<>> THEN [level |-> 0, deltas |-> ds]
  ELSE LET delta == AbsDiff(price, prev[1].price)
       IN  IF Greater(delta, 0)
           THEN LET kept == PushDelta(ds, delta, maxDeltas)
                    step == Step(delta, kept)
                    level == IF Less(price, prev[1].price)
                               THEN prev[1].level - step
                             ELSE IF Greater(price, prev[1].price)
                               THEN prev[1].level + step
                             ELSE prev[1].level
                IN  [level |-> Clamp(level, maxLevel), deltas |-> kept]
           ELSE [level |-> prev[1].level, deltas |-> ds]

---------------------------------------------------------------------------
(* Imbalance signal detector *)

\* edge.js: (volumeBuy - volumeSell) * (tickBuy + tickSell) of each candle
Diffs(values) ==
  [i \in 1..Len(values) |->
     (values[i].volumeBuy - values[i].volumeSell)
       * (values[i].tickBuy + values[i].tickSell)]

\* part_000: (buy - sell) * volume of each candle
VolDiff(values) ==
  [i \in 1..Len(values) |->
     (values[i].buy - values[i].sell) * values[i].volume]

\* the threshold test with > for >=
ReachesStrictly(value, max, thr) == 10 * Abs(value) > thr * max

\* Math.abs(value / max) >= threshold, for max > 0 and thr in tenths
Reaches(value, max, thr) == 10 * Abs(value) >= thr * max

\* edge.js analyze(): the record of one run.  divided says that the
\* series was divided by max; nan that a quotient was 0 / 0.
analyze(window, thr) ==
  LET values == AllButLast(window)
      diffs == Diffs(values)
      max == MaxAbs(diffs)
      last == Len(diffs)
      fires == /\ max > 0
               /\ Reaches(diffs[last], max, thr)
  IN  [values |-> values,
       threshold |-> thr,
       diffs |-> diffs,
       max |-> max,
       divided |-> max > 0,
       nan |-> FALSE,
       signal |-> IF ~fires THEN "none"
                  ELSE IF diffs[last] > 0 THEN "up" ELSE "down",
       value |-> IF fires THEN Round(100 * diffs[last], max) ELSE 0]

\* part_000 analyze(timeframe), up to the signal: the record of one run
analyzeTimeframe(window) ==
  LET values == AllButLast(window)
      volDiff == VolDiff(values)
      maxVolDiff == MaxAbs(volDiff)
      last == Len(volDiff)
      \* Math.abs(polarvol[last]) === 1: false for NaN and for undefined
      fires == /\ volDiff # <<>>
               /\ maxVolDiff # 0
               /\ Abs(volDiff[last]) = maxVolDiff
  IN  [values |-> values,
       threshold |-> 10,
       diffs |-> volDiff,
       max |-> maxVolDiff,
       divided |-> TRUE,
       nan |-> volDiff # <<>> /\ maxVolDiff = 0,
       signal |-> IF ~fires THEN "none"
                  ELSE IF volDiff[last] = maxVolDiff THEN "up" ELSE "down",
       value |-> IF fires THEN Round(100 * volDiff[last], maxVolDiff) ELSE 0]


---------------------------------------------------------------------------
(* part_000: updateStore, case 'trade' *)

\* `${getUTCFullYear()}-${month + 1, padded}-${getUTCDate(), padded}`
Prefix(date) ==
  NumberToString(date.year) \o <<45>>
    \o PadStart2(NumberToString(date.month + 1)) \o <<45>>
    \o PadStart2(NumberToString(date.date))

\* date.getUTCHours() * 60 + date.getUTCMinutes()
Minutes(date) == date.hours * 60 + date.minutes

\* `${prefix}-${Math.floor(minutes / timeframe)}`
CandleId(date, timeframe) ==
  Prefix(date) \o <<45>> \o NumberToString(Minutes(date) \div timeframe)

\* updateStore({ message }) of part_000
AddMessage(msgs, message) == Append(msgs, message)

\* the charts replaced by the one timeframe, the others forgotten
ChartsOnly(current, timeframe) == <<timeframe>>

\* the charts handed to updateStore({ charts }): TIMEFRAMES filtered
ChartsWith(current, timeframe) ==
  SelectSeq(TIMEFRAMES, LAMBDA tf : tf \in current \/ tf = timeframe)

\* the body of TIMEFRAMES.forEach for one timeframe, on the store st;
\* chartsThen is the charts array the handler destructured when it began
ForTimeframe(st, index, newTrade, date, chartsThen) ==
  LET timeframe == TIMEFRAMES[index]
      cap == CANDLES_LENGTH[index]
      candleId == CandleId(date, timeframe)
      w0 == st.candles[timeframe]
      isNew == ~Has(w0, candleId)
      w1 == IF isNew
            THEN AppendKey(w0, [key |-> candleId, buy |-> 0, count |-> 0,
                                sell |-> 0, volume |-> 0, close |-> NaN])
            ELSE w0
      candleIds == SortStrings(Keys(w1))
      over == isNew /\ Overflows(candleIds, cap)
      w2 == IF over THEN DeleteWhileOver(w1, candleIds, cap) ELSE w1
      run == analyzeTimeframe(w2) @@ [timeframe |-> timeframe]
      ready == /\ isNew /\ ~over
               /\ Len(candleIds) = 2
               /\ timeframe \notin {chartsThen[i] : i \in 1..Len(chartsThen)}
      newCharts == ChartsWith({st.charts[i] : i \in 1..Len(st.charts)}, timeframe)
      i == IndexOf(w2, candleId)
      w3 == [w2 EXCEPT
               ![i].close = newTrade.price,
               ![i].count = @ + 1,
               ![i].volume = Add(@, newTrade.quantity),
               ![i].buy = IF newTrade.marketMaker
                          THEN Add(@, newTrade.quantity) ELSE @,
               ![i].sell = IF newTrade.marketMaker
                           THEN @ ELSE Add(@, newTrade.quantity)]
      gone == ~Has(w2, candleId)
  IN  [st EXCEPT
         !.candles = [@ EXCEPT ![timeframe] = IF gone THEN w2 ELSE w3],
         !.created = IF isNew THEN @ \cup {timeframe} ELSE @,
         !.evicted = @ \cup {<<timeframe, k>> : k \in Keys(w1) \ Keys(w2)},
         !.evals = IF over THEN Append(@, run) ELSE @,
         !.judged = IF over /\ run.values # <<>>
                    THEN Append(@, <<timeframe, run.values[Len(run.values)].key>>)
                    ELSE @,
         !.messages = IF over /\ run.signal # "none"
                      THEN AddMessage(@, [type |-> "signal",
                                          timeframe |-> timeframe,
                                          direction |-> run.signal])
                      ELSE @,
         !.emitted = IF over /\ run.signal # "none"
                     THEN Append(@, [timeframe |-> timeframe,
                                     key |-> run.values[Len(run.values)].key,
                                     direction |-> run.signal])
                     ELSE @,
         !.chartsActive = IF over /\ timeframe \notin
                                {st.chartsActive[k] : k \in 1..Len(st.chartsActive)}
                          THEN Append(@, timeframe) ELSE @,
         !.charts = IF ready THEN newCharts ELSE @,
         !.currentChart = IF ready /\ @ = 0 THEN newCharts[1] ELSE @,
         !.crashed = gone]

RECURSIVE ForEachTimeframe(_, _, _, _, _)
\* TIMEFRAMES.forEach(...): stops at the first TypeError
ForEachTimeframe(st, index, newTrade, date, chartsThen) ==
  IF index > Len(TIMEFRAMES) \/ st.crashed THEN st
  ELSE ForEachTimeframe(ForTimeframe(st, index, newTrade, date, chartsThen),
                        index + 1, newTrade, date, chartsThen)

\* trades.unshift(trade), then pop while longer than max
Unshift(ts, t, max) ==
  LET all == <<t>> \o ts
  IN  IF Len(all) > max THEN SubSeq(all, 1, max) ELSE all

RECURSIVE MaxOf(_)
\* Math.max(...GAUGES)
MaxOf(s) ==
  IF Len(s) = 1 THEN s[1]
  ELSE LET m == MaxOf(Tail(s)) IN IF s[1] > m THEN s[1] ELSE m

Store == [candles |-> candles, created |-> {}, evicted |-> {}, evals |-> <<>>,
          messages |-> messages, emitted |-> emitted, judged |-> judged,
          chartsActive |-> chartsActive, charts |-> charts,
          currentChart |-> currentChart, crashed |-> FALSE]

TradeMulti(raw) ==
  LET lvl == calculateLevel(ParseFloat(raw.p), trade, deltas,
                            MaxDeltas, HIGHWAY_LEVEL)
      newTrade == [marketMaker |-> raw.m, price |-> ParseFloat(raw.p),
                   quantity |-> ParseFloat(raw.q), tradeTime |-> raw.T,
                   level |-> lvl.level]
      st == ForEachTimeframe(Store, 1, newTrade, raw.T, charts)
  IN  /\ program = "multi"
      /\ ~crashed
      /\ ingested < MaxTrades
      /\ ingested' = ingested + 1
      /\ pc' = <<>>
      /\ UNCHANGED <<sockets, webSocket, timers, line, logged>>
      /\ input' = <<raw>>
      /\ deltas' = lvl.deltas
      /\ candles' = st.candles
      /\ created' = st.created
      /\ evicted' = st.evicted
      /\ removed' = removed \cup st.evicted
      /\ judged' = st.judged
      /\ evals' = st.evals
      /\ messages' = st.messages
      /\ emitted' = st.emitted
      /\ chartsActive' = st.chartsActive
      /\ charts' = st.charts
      /\ currentChart' = st.currentChart
      /\ crashed' = st.crashed
      /\ trades' = IF st.crashed THEN trades
                   ELSE Unshift(trades, newTrade, MaxOf(GAUGES))
      /\ trade' = IF st.crashed THEN trade ELSE <<newTrade>>
      /\ UNCHANGED <<program, options, size, buffer, threshold, alert>>


---------------------------------------------------------------------------
(* edge.js, lines 401-814: updateStore, case 'trade' *)

TradeFive(raw) ==
  LET lvl == calculateLevel(ParseFloat(raw.p), trade, deltas,
                            MaxDeltas, MAX_LEVEL)
      newTrade == [marketMaker |-> raw.m, price |-> ParseFloat(raw.p),
                   quantity |-> ParseFloat(raw.q), tradeTime |-> raw.T,
                   level |-> lvl.level]
      candleId == CandleId(raw.T, TIMEFRAME)
      w0 == candles[TIMEFRAME]
      isNew == ~Has(w0, candleId)
      w1 == IF isNew
            THEN AppendKey(w0, [key |-> candleId, buy |-> 0, count |-> 0,
                                sell |-> 0, volume |-> 0, close |-> NaN])
            ELSE w0
      candleIds == SortStrings(Keys(w1))
      over == isNew /\ Overflows(candleIds, MaxCandles)
      w2 == IF over THEN DeleteWhileOver(w1, candleIds, MaxCandles) ELSE w1
      gone == ~Has(w2, candleId)
      i == IndexOf(w2, candleId)
      w3 == [w2 EXCEPT
               ![i].close = newTrade.price,
               ![i].count = @ + 1,
               ![i].volume = Add(@, newTrade.quantity),
               ![i].buy = IF raw.m THEN Add(@, newTrade.quantity) ELSE @,
               ![i].sell = IF raw.m THEN @ ELSE Add(@, newTrade.quantity)]
  IN  /\ program = "five"
      /\ ~crashed
      /\ ingested < MaxTrades
      /\ ingested' = ingested + 1
      /\ pc' = <<>>
      /\ UNCHANGED <<sockets, webSocket, timers, line, logged>>
      /\ input' = <<raw>>
      /\ deltas' = lvl.deltas
      /\ candles' = [candles EXCEPT ![TIMEFRAME] = IF gone THEN w2 ELSE w3]
      /\ created' = IF isNew THEN {TIMEFRAME} ELSE {}
      /\ evicted' = {<<TIMEFRAME, k>> : k \in Keys(w1) \ Keys(w2)}
      /\ removed' = removed \cup {<<TIMEFRAME, k>> : k \in Keys(w1) \ Keys(w2)}
      /\ crashed' = gone
      /\ trades' = IF gone THEN trades ELSE Unshift(trades, newTrade, MaxHistory)
      /\ trade' = IF gone THEN trade ELSE <<newTrade>>
      /\ UNCHANGED <<program, options, size, buffer, threshold, alert, messages, charts,
                     chartsActive, currentChart, evals, emitted, judged>>

---------------------------------------------------------------------------
(* part_002: calculateLevel, the trades callback of start, updateStore *)

\* Number(s), the coercion of a string operand of the binary minus
ToNumber(s) ==
  IF s = <<>> THEN 0
  ELSE IF DigitPrefix(s) = s THEN DigitsValue(s)
  ELSE NaN

\* calculateLevel(price) of part_002: the previous trade is trades[0],
\* prices are the strings of the feed, subtracted as numbers and compared
\* as strings
calculateLevelHighway(price, ts, ds, maxDeltas, maxLevel) ==
  IF ts = <<>> THEN [level |-> 0, deltas |-> ds]
  ELSE LET previousTrade == ts[1]
           delta == AbsDiff(ToNumber(price), ToNumber(previousTrade.price))
       IN  IF Greater(delta, 0)
           THEN LET kept == PushDelta(ds, delta, maxDeltas)
                    step == Step(delta, kept)
                    level == IF StrLess(price, previousTrade.price)
                               THEN previousTrade.level - step
                             ELSE IF StrLess(previousTrade.price, price)
                               THEN previousTrade.level + step
                             ELSE previousTrade.level
                IN  [level |-> Clamp(level, maxLevel), deltas |-> kept]
           ELSE [level |-> previousTrade.level, deltas |-> ds]

\* the callback of binance.websockets.trades: calculateLevel, then
\* updateStore({ trade }).  store.trade is assigned before previous.price
\* is read; on the first trade previous is undefined and the read throws
\* a TypeError, which the library that calls the callback either lets
\* end the process or swallows.
TradeHighway(raw) ==
  LET lvl == calculateLevelHighway(raw.p, trades, deltas, MaxDeltas, MAX_LEVEL)
      newTrade == [level |-> lvl.level, marketMaker |-> raw.m, price |-> raw.p,
                   quantity |-> raw.q, tradeTime |-> raw.T]
      previous == trade
      throws == previous = <<>>
  IN  /\ program = "highway"
      /\ ~crashed
      /\ ingested < MaxTrades
      /\ ingested' = ingested + 1
      /\ pc' = <<>>
      /\ UNCHANGED <<sockets, webSocket, timers, line, logged>>
      /\ input' = <<raw>>
      /\ deltas' = lvl.deltas
      /\ trade' = <<newTrade>>
      /\ trades' = IF throws THEN trades
                   ELSE Unshift(trades, previous[1], MaxHistory)
      /\ IF throws THEN crashed' \in BOOLEAN ELSE crashed' = FALSE
      /\ created' = {} /\ evicted' = {} /\ evals' = <<>>
      /\ UNCHANGED <<program, options, size, buffer, threshold, candles, alert, messages,
                     charts, chartsActive, currentChart, emitted, removed,
                     judged>>

---------------------------------------------------------------------------
(* edge.js, lines 1-399: updateStore, case 'trade' *)

LogMessageLast(msgs, message) == Append(msgs, message)

\* updateStore({ message }): [messages[0], message, ...messages.slice(1, 100)]
LogMessage(msgs, message) ==
  <<msgs[1], message>> \o SubSeq(msgs, 2, Min(Len(msgs), MaxMessages))

\* which way the price crossed the alert, "none" when it did not
CrossingFromEqual(lastTrade, price) ==
  IF alert = 0 \/ lastTrade = <<>> THEN "none"
  ELSE IF ~Greater(lastTrade[1].price, alert) /\ ~Less(price, alert)
    THEN "up"
  ELSE IF ~Less(lastTrade[1].price, alert) /\ ~Greater(price, alert)
    THEN "down"
  ELSE "none"

Crossing(lastTrade, price) ==
  IF alert = 0 \/ lastTrade = <<>> THEN "none"
  ELSE IF Less(lastTrade[1].price, alert) /\ ~Less(price, alert) /\ ~IsNaN(price)
    THEN "up"
  ELSE IF Greater(lastTrade[1].price, alert) /\ ~Greater(price, alert) /\ ~IsNaN(price)
    THEN "down"
  ELSE "none"

TradePolarvol(raw) ==
  LET newTrade == [marketMaker |-> raw.m, price |-> ParseFloat(raw.p),
                   quantity |-> ParseFloat(raw.q), tradeTime |-> raw.T]
      crossing == Crossing(trade, newTrade.price)
      fired == IF crossing = "none" THEN 0 ELSE 1
      m1 == IF crossing = "none" THEN messages
            ELSE [LogMessage(messages, [type |-> "alert", direction |-> crossing,
                                        price |-> alert, at |-> logged + 1])
                    EXCEPT ![1] = [type |-> "header", alert |-> 0]]
      id == raw.T \div size
      key == NumberToString(id)
      w0 == candles[size]
      isNew == ~Has(w0, key)
      w1 == IF isNew
            THEN InsertIndex(w0, [key |-> key, tickBuy |-> 0, tickSell |-> 0,
                                  time |-> id * size, volumeBuy |-> 0,
                                  volumeSell |-> 0, close |-> NaN])
            ELSE w0
      ids == SortStrings(Keys(w1))
      over == isNew /\ Overflows(ids, buffer)
      run == analyze(w1, threshold) @@ [timeframe |-> size]
      raised == IF over /\ run.signal # "none" THEN 1 ELSE 0
      m2 == IF over /\ run.signal # "none"
            THEN LogMessage(m1, [type |-> "signal", direction |-> run.signal,
                                 value |-> run.value,
                                 at |-> logged + fired + 1])
            ELSE m1
      w2 == IF over THEN DeleteWhileOver(w1, ids, buffer) ELSE w1
      gone == ~Has(w2, key)
      i == IndexOf(w2, key)
      w3 == [w2 EXCEPT
               ![i].close = newTrade.price,
               ![i].tickBuy = Add(@, IF ~raw.m THEN 1 ELSE 0),
               ![i].tickSell = Add(@, IF raw.m THEN 1 ELSE 0),
               ![i].volumeBuy = Add(@, IF ~raw.m THEN newTrade.quantity ELSE 0),
               ![i].volumeSell = Add(@, IF raw.m THEN newTrade.quantity ELSE 0)]
  IN  /\ program = "polarvol"
      /\ ~crashed
      /\ ingested < MaxTrades
      /\ ingested' = ingested + 1
      /\ pc' = <<>>
      /\ UNCHANGED <<sockets, webSocket, timers, line>>
      /\ logged' = logged + fired + raised
      /\ input' = <<raw>>
      /\ alert' = IF crossing = "none" THEN alert ELSE 0
      /\ messages' = m2
      /\ candles' = [candles EXCEPT ![size] = IF gone THEN w2 ELSE w3]
      /\ created' = IF isNew THEN {size} ELSE {}
      /\ evicted' = {<<size, k>> : k \in Keys(w1) \ Keys(w2)}
      /\ removed' = removed \cup {<<size, k>> : k \in Keys(w1) \ Keys(w2)}
      /\ evals' = IF over THEN <<run>> ELSE <<>>
      /\ judged' = IF over /\ run.values # <<>>
                    THEN Append(judged, <<size, run.values[Len(run.values)].key>>)
                    ELSE judged
      /\ emitted' = IF over /\ run.signal # "none"
                    THEN Append(emitted, [timeframe |-> size,
                                          key |-> run.values[Len(run.values)].key,
                                          direction |-> run.signal])
                    ELSE emitted
      /\ crashed' = gone
      /\ trade' = IF gone THEN trade ELSE <<newTrade>>
      /\ UNCHANGED <<program, options, size, buffer, threshold, deltas, trades, charts,
                     chartsActive, currentChart>>

\* the sign of the error of threshold + 0.1 * (1 or -1) in double
\* arithmetic, in thousandths: 0.7 + 0.1 is 0.7999999999999999 and
\* 0.8 - 0.1 is 0.7000000000000001, the other sums are exact tenths
Drift(tenths, direction) ==
  IF tenths = 7 /\ direction = "up" THEN -1
  ELSE IF tenths = 8 /\ direction = "down" THEN 1
  ELSE 0

\* the tenths cut off where the code rounds
TruncTenth(thousandths) == thousandths \div 100

\* Math.round(newThreshold * 10) / 10, from thousandths to tenths
RoundTenth(thousandths) == Round(thousandths, 100)

\* moveThreshold(direction), with the threshold in tenths
moveThreshold(direction) ==
  LET moved == 100 * threshold + (IF direction = "up" THEN 100 ELSE -100)
                 + Drift(threshold, direction)
      newThreshold == IF moved > 1000 THEN 1000
                      ELSE IF moved < 500 THEN 500
                      ELSE moved
  IN  /\ program = "polarvol"
      /\ ~crashed
      /\ threshold' = RoundTenth(newThreshold)
      /\ created' = {} /\ evicted' = {} /\ evals' = <<>>
      /\ UNCHANGED <<program, options, size, buffer, candles, deltas, trade, trades,
                     alert, messages, charts, chartsActive, currentChart,
                     crashed, ingested, input, emitted, removed, judged, pc,
                     sockets, webSocket, timers, line, logged>>


---------------------------------------------------------------------------
(* Construction *)

\* values of --size, in seconds: "43200"
SizeOptions == {<<52, 51, 50, 48, 48>>}

\* parseInt(s, 10): an optional minus sign and the leading digits, NaN
\* when there are none
ParseInt(s) ==
  LET negative == s # <<>> /\ Head(s) = 45
      digits == DigitPrefix(IF negative THEN Tail(s) ELSE s)
  IN  IF digits = <<>> THEN NaN
      ELSE IF negative THEN -DigitsValue(digits)
      ELSE DigitsValue(digits)

\* parseInt(options.size ?? 60, 10) > 0 ? parseInt(options.size ?? 60, 10) : 60
SizeOf(option) ==
  IF Greater(ParseInt(option), 0) THEN ParseInt(option) ELSE 60

\* a socket whose 'open' event has resolved createWebSocket and on which
\* connect() has sent SUBSCRIBE; asked: a LIST_SUBSCRIPTIONS request is
\* unanswered
Subscribed == [state |-> "open", subscribed |-> TRUE, asked |-> FALSE]

\* setTimeout in resetWatchdog: a new handle, and the timeout is pending
Armed(reconnect) ==
  [handle |-> 1 - reconnect.handle, pending |-> TRUE]

\* await createWebSocket(), updateStore({ ..., timers: {}, webSocket }) and
\* start(): the socket is stored and subscribed; only the single-timeframe
\* program of edge.js keeps a heartbeat and a watchdog, armed by the
\* connect() of updateStore and again by the connect() of start
Connected ==
  /\ sockets = <<Subscribed>>
  /\ webSocket = 1
  /\ timers = IF program = "polarvol"
              THEN [list |-> TRUE,
                    reconnect |-> Armed(Armed([handle |-> 0,
                                               pending |-> FALSE]))]
              ELSE [list |-> FALSE,
                    reconnect |-> [handle |-> 0, pending |-> FALSE]]
  /\ line = <<>>

\* program.action of edge.js (polarvol) for one value of --size
Construct(option) ==
  /\ program = "polarvol"
  /\ options = option
  /\ size = SizeOf(option) * 1000
  /\ buffer = (86400 + SizeOf(option) - 1) \div SizeOf(option)
  /\ threshold = 10
  /\ candles = (SizeOf(option) * 1000 :> <<>>)
  /\ messages = <<[type |-> "header", alert |-> 0]>>
  /\ deltas = <<>> /\ trades = <<>>
  /\ charts = <<>> /\ chartsActive = <<>> /\ currentChart = 0

\* program.action of edge.js (polarvol)
InitPolarvol == \E option \in SizeOptions : Construct(option)

\* program.action and initialize of part_000
InitMulti ==
  /\ program = "multi"
  /\ options = <<>>
  /\ size = 0 /\ buffer = 0 /\ threshold = 0
  /\ candles = [tf \in {TIMEFRAMES[i] : i \in 1..Len(TIMEFRAMES)} |-> <<>>]
  /\ messages = <<[type |-> "title"]>>
  /\ deltas = <<>> /\ trades = <<>>
  /\ charts = <<>> /\ chartsActive = <<>> /\ currentChart = 0

\* program.action of edge.js (five)
InitFive ==
  /\ program = "five"
  /\ options = <<>>
  /\ size = 0 /\ buffer = 0 /\ threshold = 0
  /\ candles = (TIMEFRAME :> <<>>)
  /\ messages = <<>>
  /\ deltas = <<>> /\ trades = <<>>
  /\ charts = <<>> /\ chartsActive = <<>> /\ currentChart = 0

\* program.action of part_002
InitHighway ==
  /\ program = "highway"
  /\ options = <<>>
  /\ size = 0 /\ buffer = 0 /\ threshold = 0
  /\ candles = <<>>
  /\ messages = <<>>
  /\ deltas = <<>> /\ trades = <<>>
  /\ charts = <<>> /\ chartsActive = <<>> /\ currentChart = 0
  /\ trade = <<>> /\ alert = 0 /\ crashed = FALSE
  /\ ingested = 0 /\ input = <<>>
  /\ created = {} /\ evicted = {} /\ evals = <<>> /\ emitted = <<>>
  /\ removed = {} /\ judged = <<>> /\ pc = <<>> /\ logged = 0
  /\ Connected

Init ==
  /\ InitPolarvol \/ InitMulti \/ InitFive
  /\ trade = <<>>
  /\ alert = 0
  /\ crashed = FALSE
  /\ ingested = 0
  /\ input = <<>>
  /\ created = {}
  /\ evicted = {}
  /\ evals = <<>>
  /\ emitted = <<>>
  /\ removed = {} /\ judged = <<>> /\ pc = <<>> /\ logged = 0
  /\ Connected

---------------------------------------------------------------------------
(* The feed *)

\* "100", "1": decimal strings as the feed sends them
Str(n) == NumberToString(n)

\* "abc"
Malformed == <<97, 98, 99>>

Utc(year, month, date, hours, minutes) ==
  [year |-> year, month |-> month, date |-> date,
   hours |-> hours, minutes |-> minutes]

\* trade times of the polarvol feed, in ms: one per candle slot 7..11
TimesPolarvol == {slot * 43200000 : slot \in 7..11}

\* trade times of the multi feed, as the UTC fields of new Date(tradeTime)
TimesMulti ==
  {Utc(2021, 0, 31, 0, 7), Utc(2021, 0, 31, 0, 8), Utc(2021, 0, 31, 0, 9),
   Utc(2021, 0, 31, 0, 10), Utc(2021, 1, 1, 0, 0)}

TimesFive ==
  {Utc(2021, 0, 31, 0, 35), Utc(2021, 0, 31, 0, 40), Utc(2021, 0, 31, 0, 45),
   Utc(2021, 0, 31, 0, 50), Utc(2021, 1, 1, 0, 0)}

Times == IF program = "polarvol" THEN TimesPolarvol
         ELSE IF program = "multi" THEN TimesMulti
         ELSE TimesFive

\* a timestamp as a tuple that orders chronologically
Instant(T) ==
  IF program = "polarvol" THEN <<T>>
  ELSE <<T.year, T.month, T.date, T.hours, T.minutes>>

RECURSIVE TupleLess(_, _)
TupleLess(a, b) ==
  IF a = <<>> \/ b = <<>> THEN FALSE
  ELSE IF Head(a) # Head(b) THEN Head(a) < Head(b)
  ELSE TupleLess(Tail(a), Tail(b))

\* the ordering dropped: any record may follow any other
AnyOrder(raw) == TRUE

\* the record does not predate the one delivered before it
InOrder(raw) ==
  IF input = <<>> THEN TRUE
  ELSE ~TupleLess(Instant(raw.T), Instant(input[1].T))

\* aggTrade records: m, p, q, T
Feed(makers, prices, quantities, times) ==
  {[m |-> m, p |-> p, q |-> q, T |-> T] :
     m \in makers, p \in prices, q \in quantities, T \in times}

---------------------------------------------------------------------------
(* Spec: trades of one side in any order of time, and the threshold keys *)

CandleFeed == Feed({TRUE}, {Str(100)}, {Str(1)}, Times)

Next ==
  \/ \E raw \in CandleFeed : TradePolarvol(raw)
  \/ \E raw \in CandleFeed : TradeMulti(raw)
  \/ \E raw \in CandleFeed : TradeFive(raw)
  \/ \E direction \in {"up", "down"} : moveThreshold(direction)

Spec == Init /\ [][Next]_vars

---------------------------------------------------------------------------
(* SpecSignal: trades of both sides in order of time, and the threshold    *)
(* keys, for the two programs that analyze                                 *)

InitSignal == Init /\ program \in {"polarvol", "multi"}

\* the times of one day
SignalTimes ==
  IF program = "polarvol" THEN {T \in TimesPolarvol : T \div 43200000 <= 10}
  ELSE {T \in TimesMulti : T.date = 31}

\* trades of 1 from both sides, and trades of 2 from the taker side
SignalFeed ==
  Feed(BOOLEAN, {Str(100)}, {Str(1)}, SignalTimes)
    \cup Feed({FALSE}, {Str(100)}, {Str(2)}, SignalTimes)

NextSignal ==
  \/ \E raw \in SignalFeed : InOrder(raw) /\ TradePolarvol(raw)
  \/ \E raw \in SignalFeed : InOrder(raw) /\ TradeMulti(raw)
  \/ \E direction \in {"up", "down"} : moveThreshold(direction)

SpecSignal == InitSignal /\ [][NextSignal]_vars

---------------------------------------------------------------------------
(* SpecRaw: a feed that also carries records whose price is no number      *)

RawFeed == Feed({TRUE}, {Str(100), Malformed}, {Str(1)}, Times)

NextRaw ==
  \/ \E raw \in RawFeed : InOrder(raw) /\ TradePolarvol(raw)
  \/ \E raw \in RawFeed : InOrder(raw) /\ TradeMulti(raw)
  \/ \E raw \in RawFeed : InOrder(raw) /\ TradeFive(raw)

SpecRaw == Init /\ [][NextRaw]_vars

---------------------------------------------------------------------------
(* SpecLevel: trades at four prices within one bucket, from construction   *)
(* and from the states a long run of one-tick moves leaves behind          *)

MaxLevel(prog) == IF prog = "multi" THEN HIGHWAY_LEVEL ELSE MAX_LEVEL

LevelTime == Utc(2021, 0, 31, 0, 7)

\* the i-th newest trade after a run of moves one-tick moves, all bought
\* at LevelTime, that ends at price 100 (rising) or 107 (falling)
RunTrade(rising, moves, i) ==
  [marketMaker |-> TRUE,
   price |-> IF rising THEN 100 - (i - 1) ELSE 107 + (i - 1),
   quantity |-> 1,
   tradeTime |-> LevelTime,
   level |-> (IF rising THEN 8 ELSE -8) * (moves - (i - 1))]

\* the one candle of a timeframe after such a run
RunCandle(rising, moves, timeframe) ==
  [key |-> CandleId(LevelTime, timeframe), buy |-> moves + 1,
   count |-> moves + 1, sell |-> 0, volume |-> moves + 1,
   close |-> IF rising THEN 100 ELSE 107]

\* the store after moves + 1 trades, each one tick above (below) the one
\* before: every delta is 1, so every step is 8
InitRun ==
  \E prog \in {"multi", "five"}, rising \in BOOLEAN :
    \E moves \in {MaxLevel(prog) \div 8 - 1, MaxLevel(prog) \div 8} :
      /\ program = prog
      /\ options = <<>>
      /\ size = 0 /\ buffer = 0 /\ threshold = 0 /\ alert = 0
      /\ candles = IF prog = "multi"
                   THEN [tf \in {TIMEFRAMES[i] : i \in 1..Len(TIMEFRAMES)} |->
                           <<RunCandle(rising, moves, tf)>>]
                   ELSE (TIMEFRAME :> <<RunCandle(rising, moves, TIMEFRAME)>>)
      /\ deltas = [i \in 1..Min(MaxDeltas, moves) |-> 1]
      /\ trade = <<RunTrade(rising, moves, 1)>>
      /\ trades = [i \in 1..Min(MaxHistory, moves + 1) |->
                     RunTrade(rising, moves, i)]
      /\ messages = IF prog = "multi" THEN <<[type |-> "title"]>> ELSE <<>>
      /\ charts = <<>> /\ chartsActive = <<>> /\ currentChart = 0
      /\ crashed = FALSE
      /\ ingested = 0
      /\ input = <<[m |-> TRUE, p |-> Str(IF rising THEN 100 ELSE 107),
                    q |-> Str(1), T |-> LevelTime]>>
      /\ created = {} /\ evicted = {} /\ evals = <<>> /\ emitted = <<>>
      /\ removed = {} /\ judged = <<>> /\ pc = <<>> /\ logged = 0
      /\ Connected

InitLevel == (Init /\ program \in {"multi", "five"}) \/ InitRun

LevelFeed ==
  Feed({TRUE}, {Str(100), Str(101), Str(103), Str(107)}, {Str(1)}, {LevelTime})

NextLevel ==
  \/ \E raw \in LevelFeed : TradeMulti(raw)
  \/ \E raw \in LevelFeed : TradeFive(raw)

SpecLevel == InitLevel /\ [][NextLevel]_vars

---------------------------------------------------------------------------
(* SpecOrdered: trades of one side in order of time *)

NextOrdered ==
  \/ \E raw \in CandleFeed : InOrder(raw) /\ TradePolarvol(raw)
  \/ \E raw \in CandleFeed : InOrder(raw) /\ TradeMulti(raw)
  \/ \E raw \in CandleFeed : InOrder(raw) /\ TradeFive(raw)

SpecOrdered == Init /\ [][NextOrdered]_vars

---------------------------------------------------------------------------
(* SpecHistory: trades at three prices within one bucket, for the three    *)
(* programs that keep a trade history                                      *)

InitHistory == (Init /\ program \in {"multi", "five"}) \/ InitHighway

HistoryFeed ==
  Feed({TRUE}, {Str(100), Str(101), Str(103)}, {Str(1)}, {LevelTime})

NextHistory ==
  \/ \E raw \in HistoryFeed : TradeMulti(raw)
  \/ \E raw \in HistoryFeed : TradeFive(raw)
  \/ \E raw \in HistoryFeed : TradeHighway(raw)

SpecHistory == InitHistory /\ [][NextHistory]_vars

---------------------------------------------------------------------------
(* SpecConfig: the single-timeframe program started with good and bad      *)
(* values of --size                                                        *)

\* "43200", "abc", "0", "-5"
ConfigOptions == SizeOptions \cup {Malformed, <<48>>, <<45, 53>>}

InitConfig ==
  /\ \E option \in ConfigOptions : Construct(option)
  /\ trade = <<>> /\ alert = 0 /\ crashed = FALSE
  /\ ingested = 0 /\ input = <<>>
  /\ created = {} /\ evicted = {} /\ evals = <<>> /\ emitted = <<>>
  /\ removed = {} /\ judged = <<>> /\ pc = <<>> /\ logged = 0
  /\ Connected

NextConfig ==
  \/ \E raw \in CandleFeed : InOrder(raw) /\ TradePolarvol(raw)
  \/ \E direction \in {"up", "down"} : moveThreshold(direction)

SpecConfig == InitConfig /\ [][NextConfig]_vars

---------------------------------------------------------------------------
(* Windows and their caps *)

Timeframes == DOMAIN candles

\* the retention cap of the window of a timeframe
Cap(timeframe) ==
  IF program = "polarvol" THEN buffer
  ELSE IF program = "multi"
    THEN CANDLES_LENGTH[CHOOSE index \in 1..Len(TIMEFRAMES) :
                          TIMEFRAMES[index] = timeframe]
  ELSE MaxCandles

\* the start of the bucket a candle id names, as a tuple that orders
\* chronologically: the id itself, or year, month, day and index
KeyInstant(key) ==
  IF program = "polarvol" THEN <<DigitsValue(key)>>
  ELSE <<DigitsValue(SubSeq(key, 1, 4)), DigitsValue(SubSeq(key, 6, 7)),
         DigitsValue(SubSeq(key, 9, 10)), DigitsValue(SubSeq(key, 12, Len(key)))>>

\* bucket a starts before bucket b
KeyBefore(a, b) == TupleLess(KeyInstant(a), KeyInstant(b))

---------------------------------------------------------------------------
(* C1 *)

\* C1: after every ingest, whatever the order of the trades, no window
\* of any timeframe holds more buckets than the cap of that timeframe.
WindowBound ==
  \A timeframe \in Timeframes : Len(candles[timeframe]) <= Cap(timeframe)

\* an ingest has created a bucket in a full window and deleted another
WindowBoundWitness ==
  \E timeframe \in created :
    /\ Len(candles[timeframe]) = Cap(timeframe)
    /\ \E e \in evicted : e[1] = timeframe
    /\ ~crashed

---------------------------------------------------------------------------
(* C2 *)

\* C2: whenever an ingest evicts a bucket, the bucket evicted is the
\* chronologically oldest: it starts before every bucket its window keeps.
EvictsOldest ==
  \A e \in evicted :
    \A key \in Keys(candles[e[1]]) : KeyBefore(e[2], key)

---------------------------------------------------------------------------
(* C3 *)

\* C3: the ids of the buckets of a window sort by time under the string
\* order of Object.keys().sort(): of two ids in a window, the one of the
\* earlier bucket is the lesser string.
IdsSortByTime ==
  \A timeframe \in Timeframes :
    \A a, b \in Keys(candles[timeframe]) :
      KeyBefore(a, b) => StrLess(a, b)

---------------------------------------------------------------------------
(* C4 *)

\* imbalance times activity of an evaluated candle, from its fields
Imbalance(candle) ==
  IF program = "polarvol"
  THEN (candle.volumeBuy - candle.volumeSell) * (candle.tickBuy + candle.tickSell)
  ELSE (candle.buy - candle.sell) * candle.volume

\* the threshold in force, in tenths: the store's, or the fixed 1
ThresholdTenths == IF program = "polarvol" THEN threshold ELSE 10

---------------------------------------------------------------------------
(* C5 *)

\* C5: over any sequence of trades, the signal of a timeframe fires at
\* most once for any one bucket id.
SignalOncePerBucket ==
  \A i, j \in 1..Len(emitted) :
    (emitted[i].timeframe = emitted[j].timeframe
       /\ emitted[i].key = emitted[j].key) => i = j

---------------------------------------------------------------------------
(* C6 *)

\* the number of analyze() runs of the last step for a timeframe
Evaluations(runs, timeframe) ==
  Cardinality({k \in 1..Len(runs) : runs[k].timeframe = timeframe})

\* C6: each ingest runs the evaluation exactly once for every timeframe
\* in which it creates a bucket that takes the window above its cap, and
\* not at all for any other timeframe; no other step runs it.
EvaluatedOncePerOverflow ==
  [][\A timeframe \in Timeframes :
       Evaluations(evals', timeframe) =
         IF /\ ingested' # ingested
            /\ timeframe \in created'
            /\ Len(candles[timeframe]) + 1 > Cap(timeframe)
         THEN 1 ELSE 0]_vars

\* the third distinct bucket of a window of cap 2 has just been opened:
\* one bucket was evicted and one evaluation ran
EvaluatedOncePerOverflowWitness ==
  /\ ingested = 3
  /\ ~crashed
  /\ \E timeframe \in created :
       /\ Cap(timeframe) = 2
       /\ Cardinality({e \in evicted : e[1] = timeframe}) = 1
       /\ Evaluations(evals, timeframe) = 1

---------------------------------------------------------------------------
(* C7 *)

\* C7: an evaluation over a series whose diffs are all zero is skipped:
\* it raises no signal and divides nothing by the zero maximum, so that
\* no NaN is produced.
ZeroSeriesSkipped ==
  \A k \in 1..Len(evals) :
    (\A i \in 1..Len(evals[k].values) : Imbalance(evals[k].values[i]) = 0)
      => evals[k].signal = "none" /\ ~evals[k].nan

---------------------------------------------------------------------------
(* C8 *)

\* the price or the quantity of a raw record parses to no number
IsMalformed(raw) == IsNaN(ParseFloat(raw.p)) \/ IsNaN(ParseFloat(raw.q))

\* C8: a raw record whose price or quantity is no finite positive number
\* is dropped: the trade history, every window, the delta history and
\* the previous trade are as they were before it arrived.
MalformedDropped ==
  [][(ingested' # ingested /\ IsMalformed(input'[1]))
       => UNCHANGED <<trades, candles, deltas, trade>>]_vars

---------------------------------------------------------------------------
(* C9 *)

\* C9: the level of every trade lies in [-L, L], L being 368 or 320 by
\* program, also after a single move of many ticks.
LevelBounded ==
  /\ \A i \in 1..Len(trades) : Abs(trades[i].level) <= MaxLevel(program)
  /\ \A i \in 1..Len(trade) : Abs(trade[i].level) <= MaxLevel(program)

\* a move of seven ticks from one step under the maximum: the level
\* stopped at L, short of the 19 the move is worth
LevelBoundedWitness ==
  /\ Len(trades) >= 2
  /\ trades[2].level = MaxLevel(program) - 8
  /\ trades[2].price = 100
  /\ trades[1].price = 107
  /\ trades[1].level = MaxLevel(program)

---------------------------------------------------------------------------
(* C10 *)

\* the trades of the only bucket are the four of 100, 101, 103, 107
FourPrices ==
  /\ \A timeframe \in Timeframes :
       Len(candles[timeframe]) = 1 /\ candles[timeframe][1].count = 4
  /\ deltas = <<1, 2, 4>>

\* C10: the first trade has level 0.  When the price of a trade differs
\* from the previous one by delta > 0, delta is the newest entry of the
\* delta history, the average is the mean of the history with delta in
\* it, the step is 8 x delta / average rounded to the nearest integer,
\* and the level is the previous level plus the step (price rose) or
\* minus the step (price fell), clamped to [-L, L].  The prices 100, 101,
\* 103, 107 give the levels 0, 8, 19, 33.
LevelArithmetic ==
  /\ Len(trades) = 1 => trades[1].level = 0
  /\ (Len(trades) >= 2 /\ trades[1].price # trades[2].price) =>
       LET delta == Abs(trades[1].price - trades[2].price)
           n == Len(deltas)
           sum == SumSeq(deltas)
           L == MaxLevel(program)
       IN  /\ deltas[n] = delta
           /\ \E step \in 0..(8 * n) :
                /\ 2 * step * sum <= 16 * delta * n + sum
                /\ 16 * delta * n + sum < 2 * (step + 1) * sum
                /\ LET target == IF trades[1].price > trades[2].price
                                 THEN trades[2].level + step
                                 ELSE trades[2].level - step
                   IN  trades[1].level =
                         IF target > L THEN L
                         ELSE IF target < -L THEN -L
                         ELSE target
  /\ FourPrices => trades[1].level = 33 /\ trades[2].level = 19

\* the fourth trade of 100, 101, 103, 107 has been ingested
LevelArithmeticWitness ==
  /\ FourPrices
  /\ ingested = 4
  /\ trades[1].price = 107 /\ trades[1].level = 33
  /\ trades[2].price = 103 /\ trades[2].level = 19

---------------------------------------------------------------------------
(* C11 *)

\* the record being ingested repeats the price of the previous trade
SamePrice == trade # <<>> /\ ParseFloat(input'[1].p) = trade[1].price

\* C11: a trade at the price of the previous trade takes the level of
\* the previous trade and leaves the delta history as it was: no zero
\* is pushed and nothing is shifted out.
ZeroDeltaCarries ==
  [][(ingested' # ingested /\ SamePrice)
       => (trade'[1].level = trade[1].level /\ deltas' = deltas)]_vars

\* two trades at 101 after one at 100: the second keeps level 8 and the
\* history <<1>>
ZeroDeltaCarriesWitness ==
  /\ ingested = 3
  /\ Len(trades) >= 2
  /\ trades[1].price = 101 /\ trades[2].price = 101
  /\ trades[1].level = 8 /\ trades[2].level = 8
  /\ deltas = <<1>>

---------------------------------------------------------------------------
(* C12 *)

\* the id of the bucket of a timeframe that a timestamp falls in
BucketKey(T, timeframe) ==
  IF program = "polarvol" THEN NumberToString(T \div size)
  ELSE CandleId(T, timeframe)

---------------------------------------------------------------------------
(* C13 *)

---------------------------------------------------------------------------
(* C14 *)

\* the accumulators of a candle: trades counted, quantity bought and sold
Accumulators(candle) ==
  IF program = "polarvol"
  THEN [count |-> candle.tickBuy + candle.tickSell,
        buy |-> candle.volumeBuy, sell |-> candle.volumeSell]
  ELSE [count |-> candle.count, buy |-> candle.buy, sell |-> candle.sell]

\* the accumulators of the candle under a key, all zero when there is none
AccumulatorsAt(window, key) ==
  IF Has(window, key) THEN Accumulators(window[IndexOf(window, key)])
  ELSE [count |-> 0, buy |-> 0, sell |-> 0]

\* C14: every ingest, in every timeframe, leaves the bucket of the trade
\* with the trade price as its close, one more trade counted and the
\* trade quantity added to exactly one of its buy and sell accumulators,
\* counting from zero when the bucket did not exist.
BucketUpdated ==
  [][ingested' # ingested =>
       \A timeframe \in Timeframes :
         LET key == BucketKey(input'[1].T, timeframe)
             quantity == ParseFloat(input'[1].q)
             old == AccumulatorsAt(candles[timeframe], key)
             new == AccumulatorsAt(candles'[timeframe], key)
         IN  /\ Has(candles'[timeframe], key)
             /\ candles'[timeframe][IndexOf(candles'[timeframe], key)].close
                  = ParseFloat(input'[1].p)
             /\ new.count = old.count + 1
             /\ \/ new.buy = old.buy + quantity /\ new.sell = old.sell
                \/ new.sell = old.sell + quantity /\ new.buy = old.buy]_vars

---------------------------------------------------------------------------
(* C15 *)

\* C15: in every evaluation whose maximum is positive, each diff divided
\* by the maximum lies in [-1, 1]; and the last quotient has magnitude 1
\* only if no bucket of the series has a greater |diff| than the last.
NormalizedInRange ==
  \A k \in 1..Len(evals) :
    LET e == evals[k]
        n == Len(e.values)
        diff == [i \in 1..n |-> Imbalance(e.values[i])]
    IN  e.max > 0 =>
          /\ \A i \in 1..n : -e.max <= diff[i] /\ diff[i] <= e.max
          /\ Abs(diff[n]) = e.max =>
               \A i \in 1..n : Abs(diff[i]) <= Abs(diff[n])

\* an evaluation of two buckets of different |diff|, the last the greater
NormalizedInRangeWitness ==
  \E k \in 1..Len(evals) :
    LET diffs == evals[k].diffs
    IN  /\ evals[k].max > 0
        /\ Len(diffs) >= 2
        /\ Abs(diffs[Len(diffs)]) = evals[k].max
        /\ \E i \in 1..Len(diffs) : Abs(diffs[i]) # 0 /\ Abs(diffs[i]) < evals[k].max

---------------------------------------------------------------------------
(* C16 *)

\* the capacity of the trade history
HistoryCap == IF program = "multi" THEN MaxOf(GAUGES) ELSE MaxHistory

\* the history entry is the record just delivered
IsInput(entry, raw) ==
  /\ entry.tradeTime = raw.T
  /\ entry.marketMaker = raw.m
  /\ entry.price = IF program = "highway" THEN raw.p ELSE ParseFloat(raw.p)

\* C16: after every trade the program records, the history holds at most
\* T entries, its first entry is the trade just ingested and the rest is
\* the history of before in its order, newest first, less the oldest
\* entry when the history was full.
HistoryNewestFirst ==
  [][(ingested' # ingested /\ ~crashed') =>
       /\ Len(trades') <= HistoryCap
       /\ Len(trades') = Min(Len(trades) + 1, HistoryCap)
       /\ IsInput(trades'[1], input'[1])
       /\ Tail(trades') = SubSeq(trades, 1, Len(trades') - 1)]_vars

---------------------------------------------------------------------------
(* C17 *)

\* a candle width that is a positive decimal number of seconds
IsValidSize(option) ==
  option # <<>> /\ DigitPrefix(option) = option /\ DigitsValue(option) > 0

\* C17: no trade is ever ingested by an engine constructed from an
\* invalid candle width: such a configuration is rejected, not replaced.
InvalidConfigRejected == ingested > 0 => IsValidSize(options)

---------------------------------------------------------------------------
(* C18 *)

\* how many times a timeframe is listed in the displayable charts
Listed(list, timeframe) ==
  Cardinality({i \in 1..Len(list) : list[i] = timeframe})

\* C18: a timeframe enters the list of displayable charts on the ingest
\* that takes its window from fewer than 2 buckets to 2, and on no other
\* step; once listed it stays listed, and it is never listed twice.
ReadyExactlyOnce ==
  [][program = "multi" =>
       \A timeframe \in Timeframes :
         Listed(charts', timeframe) =
           IF \/ Listed(charts, timeframe) = 1
              \/ /\ Len(candles[timeframe]) < 2
                 /\ Len(candles'[timeframe]) >= 2
           THEN 1 ELSE 0]_vars

\* the 3-minute window has just reached 2 buckets, in an ingest that
\* evicted a bucket of the 1-minute window, listed since an earlier ingest
ReadyExactlyOnceWitness ==
  /\ program = "multi"
  /\ charts = <<1, 3>>
  /\ 3 \in created /\ Len(candles[3]) = 2
  /\ \E e \in evicted : e[1] = 1
  /\ ~crashed

---------------------------------------------------------------------------
(* C19 *)

\* C19: with trades delivered in order of time, the bucket an ingest
\* creates is the last enumerated of its window and is not among the
\* buckets that ingest evicts, so that the update which follows finds it:
\* no ingest ends in the TypeError of a deleted bucket.
CreatedBucketKept ==
  /\ ~crashed
  /\ \A timeframe \in created :
       LET key == BucketKey(input[1].T, timeframe)
           window == candles[timeframe]
       IN  /\ <<timeframe, key>> \notin evicted
           /\ window # <<>> /\ window[Len(window)].key = key

---------------------------------------------------------------------------
(* C20 *)

\* the ids in a timeframe's window when the last step had inserted its
\* bucket and deleted none yet
KeysBeforeEviction(timeframe) ==
  Keys(candles[timeframe]) \cup {e[2] : e \in {d \in evicted : d[1] = timeframe}}

\* C20: the detector runs on the window as it is before the eviction:
\* the series it evaluates is every bucket of the overflowing window but
\* the one just inserted, N closed buckets, the one about to be evicted
\* among them.
EvaluatedBeforeEviction ==
  \A k \in 1..Len(evals) :
    LET timeframe == evals[k].timeframe
        key == BucketKey(input[1].T, timeframe)
    IN  /\ Keys(evals[k].values) = KeysBeforeEviction(timeframe) \ {key}
        /\ Len(evals[k].values) = Cap(timeframe)

---------------------------------------------------------------------------
(* C21 *)

\* how many analyze() runs had the bucket as the last of their series
Judgements(runs, timeframe, key) ==
  Cardinality({k \in 1..Len(runs) : runs[k] = <<timeframe, key>>})

\* C21: with trades delivered in order of time, a bucket is evaluated
\* exactly once, when it closes: the ingest that opens the next bucket of
\* a full window leaves the bucket of the previous trade as the last
\* bucket of exactly one evaluation, and no bucket is ever the last
\* bucket of a second evaluation.
EvaluatedOnceAtClose ==
  [][ingested' # ingested =>
       /\ \A timeframe \in Timeframes :
            (timeframe \in created' /\ Len(candles[timeframe]) >= Cap(timeframe))
              => Judgements(judged', timeframe,
                            BucketKey(input[1].T, timeframe)) = 1
       /\ \A k \in 1..Len(judged') :
            Judgements(judged', judged'[k][1], judged'[k][2]) = 1]_vars

---------------------------------------------------------------------------
(* C22 *)

\* C22: an ingest of a trade whose maker flag is true adds its quantity
\* to the buy accumulator of the trade's bucket and leaves the sell
\* accumulator alone; one whose maker flag is false adds it to the sell
\* accumulator and leaves the buy accumulator alone.
MakerAddsToBuy ==
  [][(ingested' # ingested /\ ~crashed') =>
       \A timeframe \in Timeframes :
         LET key == BucketKey(input'[1].T, timeframe)
             quantity == ParseFloat(input'[1].q)
             old == AccumulatorsAt(candles[timeframe], key)
             new == AccumulatorsAt(candles'[timeframe], key)
         IN  IF input'[1].m
             THEN new.buy = old.buy + quantity /\ new.sell = old.sell
             ELSE new.sell = old.sell + quantity /\ new.buy = old.buy]_vars

---------------------------------------------------------------------------
(* C23 *)

\* the price of a recorded trade as a number
PriceOf(t) == IF program = "highway" THEN ToNumber(t.price) ELSE t.price

\* C23: in every program, the level of a trade is derived from the trade
\* ingested immediately before it: delta is |price - price of that
\* trade|; when delta is positive it is the newest delta of the history
\* and the level is the level of that trade plus or minus the step,
\* clamped; when delta is zero the level is the level of that trade.
LevelFromPrevious ==
  [][(ingested' # ingested /\ ~crashed' /\ trade # <<>>) =>
       LET price == PriceOf(trade'[1])
           previous == trade[1]
           delta == AbsDiff(price, PriceOf(previous))
       IN  IF delta > 0
           THEN /\ deltas' # <<>>
                /\ deltas'[Len(deltas')] = delta
                /\ trade'[1].level =
                     Clamp(IF price > PriceOf(previous)
                             THEN previous.level + Step(delta, deltas')
                           ELSE previous.level - Step(delta, deltas'),
                           MaxLevel(program))
           ELSE /\ trade'[1].level = previous.level
                /\ deltas' = deltas]_vars

---------------------------------------------------------------------------
(* C24 *)

\* C24: the first price change since start, which leaves exactly one
\* delta in the history, moves the level by a step of exactly 8 whatever
\* its size: from 0 to 8 when the price rose and to -8 when it fell.
FirstStepIsEight ==
  [][(ingested' # ingested /\ ~crashed' /\ deltas = <<>> /\ Len(deltas') = 1) =>
       /\ trade # <<>>
       /\ trade[1].level = 0
       /\ Step(deltas'[1], deltas') = 8
       /\ trade'[1].level = IF trade'[1].price > trade[1].price THEN 8 ELSE -8]_vars

\* 107 after 100 and 100 after 107: one delta of 7, levels 8 and -8
FirstStepIsEightWitness ==
  /\ deltas = <<7>>
  /\ Len(trades) = 2
  /\ trades[2].level = 0
  /\ \/ trades[2].price = 100 /\ trades[1].price = 107 /\ trades[1].level = 8
     \/ trades[2].price = 107 /\ trades[1].price = 100 /\ trades[1].level = -8

---------------------------------------------------------------------------
(* C25 *)

\* C25: after every trade the delta history holds at most D deltas, all
\* strictly positive, in order of arrival: a trade whose price differs
\* from the previous one appends |difference| as the newest delta, and
\* when that takes the history over D exactly the oldest delta is
\* removed; any other trade leaves the history as it was.
DeltaHistoryFifo ==
  [][ingested' # ingested =>
       LET delta == IF trade = <<>> THEN 0
                    ELSE Abs(ParseFloat(input'[1].p) - trade[1].price)
       IN  /\ Len(deltas') <= MaxDeltas
           /\ \A i \in 1..Len(deltas') : deltas'[i] > 0
           /\ deltas' = IF delta = 0 THEN deltas
                        ELSE IF Len(deltas) = MaxDeltas
                          THEN Append(Tail(deltas), delta)
                        ELSE Append(deltas, delta)]_vars

\* two price changes ingested on a full history of ones: the two oldest
\* ones are gone and the two new deltas are the newest, in order
DeltaHistoryFifoWitness ==
  /\ ingested = 2
  /\ Len(deltas) = MaxDeltas
  /\ deltas[1] = 1
  /\ deltas[MaxDeltas - 1] = 7
  /\ deltas[MaxDeltas] = 4

---------------------------------------------------------------------------
(* SpecSteps: the trade handler taken line by line, with the handlers of   *)
(* the event loop that may start only when no handler is running           *)

\* every variable but pc
heap == <<program, options, size, buffer, threshold, candles, deltas, trade,
          trades, alert, messages, charts, chartsActive, currentChart, crashed,
          ingested, input, created, evicted, evals, emitted, removed, judged,
          sockets, webSocket, timers, line, logged>>

\* a handler may start while another is suspended
EventLoopAnytime(p) == TRUE

\* the event loop starts a handler only when the running one has returned:
\* the listener of 'message' and updateStore hold no await and no callback
EventLoopFree(p) == p = <<>>

\* edge.js: candles after `candles[id] = {...}` on line 348
InsertedPolarvol(raw) ==
  LET id == raw.T \div size
      key == NumberToString(id)
      w0 == candles[size]
  IN  IF Has(w0, key) THEN w0
      ELSE InsertIndex(w0, [key |-> key, tickBuy |-> 0, tickSell |-> 0,
                            time |-> id * size, volumeBuy |-> 0,
                            volumeSell |-> 0, close |-> NaN])

\* edge.js: candles after the do-while of lines 352-355
EvictedPolarvol(raw) ==
  LET w1 == InsertedPolarvol(raw)
      ids == SortStrings(Keys(w1))
  IN  IF w1 # candles[size] /\ Overflows(ids, buffer)
      THEN DeleteWhileOver(w1, ids, buffer)
      ELSE w1

\* part_000: newTrade of lines 444-445
NewTradeMulti(raw) ==
  [marketMaker |-> raw.m, price |-> ParseFloat(raw.p),
   quantity |-> ParseFloat(raw.q), tradeTime |-> raw.T,
   level |-> calculateLevel(ParseFloat(raw.p), trade, deltas,
                            MaxDeltas, HIGHWAY_LEVEL).level]

RECURSIVE ForFirst(_, _, _, _, _)
\* the store after the forEach has run for the first n timeframes
ForFirst(st, n, newTrade, date, chartsThen) ==
  IF n = 0 THEN st
  ELSE LET before == ForFirst(st, n - 1, newTrade, date, chartsThen)
       IN  IF before.crashed THEN before
           ELSE ForTimeframe(before, n, newTrade, date, chartsThen)

\* part_000: candles after line 452 has run for the k-th timeframe
InsertedMulti(raw, k) ==
  LET st == ForFirst(Store, k - 1, NewTradeMulti(raw), raw.T, charts)
      timeframe == TIMEFRAMES[k]
      candleId == CandleId(raw.T, timeframe)
      w0 == st.candles[timeframe]
  IN  IF st.crashed \/ Has(w0, candleId) THEN st.candles
      ELSE [st.candles EXCEPT
              ![timeframe] = AppendKey(w0, [key |-> candleId, buy |-> 0,
                                            count |-> 0, sell |-> 0,
                                            volume |-> 0, close |-> NaN])]

\* the lines of the handler at which the model stops
LinesReached == IF program = "multi" THEN Len(TIMEFRAMES) ELSE 2

\* store.candles as a handler that started now would read it
Visible(p) ==
  IF p = <<>> THEN candles
  ELSE IF program = "polarvol"
    THEN (size :> IF p[2] = 1 THEN InsertedPolarvol(p[1])
                  ELSE EvictedPolarvol(p[1]))
  ELSE InsertedMulti(p[1], p[2])

\* webSocket.on('message'): the listener is entered with a record
BeginTrade(raw) ==
  /\ program \in {"polarvol", "multi"}
  /\ ~crashed
  /\ ingested < MaxTrades
  /\ EventLoopFree(pc)
  /\ pc' = <<raw, 1>>
  /\ UNCHANGED heap

\* the handler runs on to the next line of interest
AdvanceTrade ==
  /\ pc # <<>>
  /\ pc[2] < LinesReached
  /\ pc' = <<pc[1], pc[2] + 1>>
  /\ UNCHANGED heap

\* the handler runs to its end and returns
FinishTrade ==
  /\ pc # <<>>
  /\ pc[2] = LinesReached
  /\ TradePolarvol(pc[1]) \/ TradeMulti(pc[1])

\* screen.key('up'), screen.key('down')
KeyPress(direction) == EventLoopFree(pc) /\ moveThreshold(direction)

InitSteps == Init /\ program \in {"polarvol", "multi"}

NextSteps ==
  \/ \E raw \in CandleFeed : InOrder(raw) /\ BeginTrade(raw)
  \/ AdvanceTrade
  \/ FinishTrade
  \/ \E direction \in {"up", "down"} : KeyPress(direction)

SpecSteps == InitSteps /\ [][NextSteps]_vars

---------------------------------------------------------------------------
(* C26 *)

\* no window is over its cap and every bucket has counted a trade
Settled(windows) ==
  \A timeframe \in DOMAIN windows :
    /\ Len(windows[timeframe]) <= Cap(timeframe)
    /\ \A i \in 1..Len(windows[timeframe]) :
         Accumulators(windows[timeframe][i]).count >= 1

\* the step starts a handler: a key handler, or the listener of a trade
HandlerStarts ==
  \/ pc' = pc
  \/ IF pc' = <<>> THEN FALSE ELSE pc'[2] = 1

---------------------------------------------------------------------------
(* SpecSides: trades of both sides and two quantities in order of time,    *)
(* for the three programs that keep candles                                *)

\* the times of one day
SidesTimes ==
  IF program = "polarvol" THEN {T \in TimesPolarvol : T \div 43200000 <= 10}
  ELSE {T \in Times : T.date = 31}

\* trades of 1 from both sides, and trades of 2 from the taker side
SidesFeed ==
  Feed(BOOLEAN, {Str(100)}, {Str(1)}, SidesTimes)
    \cup Feed({FALSE}, {Str(100)}, {Str(2)}, SidesTimes)

NextSides ==
  \/ \E raw \in SidesFeed : InOrder(raw) /\ TradePolarvol(raw)
  \/ \E raw \in SidesFeed : InOrder(raw) /\ TradeMulti(raw)
  \/ \E raw \in SidesFeed : InOrder(raw) /\ TradeFive(raw)

SpecSides == Init /\ [][NextSides]_vars

---------------------------------------------------------------------------
(* C27 *)

\* the ingest ran the updates of the bucket under the key
Counted(timeframe, key) ==
  /\ key = BucketKey(input'[1].T, timeframe)
  /\ \/ ~crashed'
     \/ program = "multi" /\ \E later \in Timeframes :
          later > timeframe /\ later \in created'

---------------------------------------------------------------------------
(* C28 *)

\* C28: an ingest changes, in each timeframe, only the bucket the trade
\* falls in, and removes at most one bucket: every other bucket it
\* retains was there before, with the same close, counts and volumes.
OnlyTradeBucketChanges ==
  [][ingested' # ingested =>
       \A timeframe \in Timeframes :
         LET before == candles[timeframe]
             after == candles'[timeframe]
             key == BucketKey(input'[1].T, timeframe)
         IN  /\ Cardinality(Keys(before) \ Keys(after)) <= 1
             /\ \A i \in 1..Len(after) :
                  after[i].key # key =>
                    /\ Has(before, after[i].key)
                    /\ after[i] = before[IndexOf(before, after[i].key)]]_vars

\* an ingest has opened a bucket in a full window: one bucket was
\* evicted, and the other, of two trades, was retained next to the new
OnlyTradeBucketChangesWitness ==
  /\ ~crashed
  /\ \E timeframe \in created :
       LET window == candles[timeframe]
           key == BucketKey(input[1].T, timeframe)
       IN  /\ Len(window) = 2
           /\ Cardinality({e \in evicted : e[1] = timeframe}) = 1
           /\ \E i \in 1..2 :
                window[i].key # key /\ Accumulators(window[i]).count = 2

---------------------------------------------------------------------------
(* SpecSwing: trades within one bucket at prices one tick and a hundred    *)
(* ticks apart, so that a move can be small against the average            *)

InitSwing == Init /\ program \in {"multi", "five"}

SwingFeed ==
  Feed({TRUE}, {Str(100), Str(101), Str(200)}, {Str(1)}, {LevelTime})

NextSwing ==
  \/ \E raw \in SwingFeed : TradeMulti(raw)
  \/ \E raw \in SwingFeed : TradeFive(raw)

SpecSwing == InitSwing /\ [][NextSwing]_vars

---------------------------------------------------------------------------
(* C29 *)

\* C29: the level moves only the way the price moves: a trade at a
\* higher price than the previous trade has a level that is not lower
\* than the previous level, and a trade at a lower price a level that is
\* not higher; the level may stay where it was.
LevelFollowsPrice ==
  [][(ingested' # ingested /\ ~crashed' /\ trade # <<>>) =>
       /\ trade'[1].price > trade[1].price => trade'[1].level >= trade[1].level
       /\ trade'[1].price < trade[1].price => trade'[1].level <= trade[1].level]_vars

\* after two moves of a hundred ticks, a rise of one tick is a step of 0:
\* the level of the trade at 101 is the level of the trade at 100
LevelFollowsPriceWitness ==
  /\ Len(trades) >= 2
  /\ deltas = <<100, 100, 1>>
  /\ trades[1].price = 101
  /\ trades[2].price = 100
  /\ trades[1].level = trades[2].level

---------------------------------------------------------------------------
(* C30 *)

\* C30: the signal threshold starts at 1 and is always one of 0.5, 0.6,
\* 0.7, 0.8, 0.9, 1: a trade never changes it, and a key press moves it
\* by exactly 0.1, or leaves it where it is when it stands at 1 or at 0.5.
ThresholdStepsByTenth ==
  /\ program = "polarvol" => threshold = 10
  /\ [][program = "polarvol" =>
          /\ threshold' \in 5..10
          /\ IF ingested' # ingested THEN threshold' = threshold
             ELSE \/ Abs(threshold' - threshold) = 1
                  \/ threshold' = threshold /\ threshold \in {5, 10}]_vars

\* the threshold has come down to 0.5, across trades
ThresholdStepsByTenthWitness ==
  /\ program = "polarvol"
  /\ threshold = 5
  /\ ingested >= 2
  /\ ~crashed

---------------------------------------------------------------------------
(* SpecSocket: the heartbeat, the watchdog and the reconnecting socket of  *)
(* edge.js (polarvol)                                                      *)

MaxSockets == 3

\* new WebSocket(BINANCE): no 'open' or 'error' event yet
Connecting == [state |-> "connecting", subscribed |-> FALSE, asked |-> FALSE]

\* a socket that delivers nothing more
Closed == [state |-> "closed", subscribed |-> FALSE, asked |-> FALSE]

Survive(socket) == socket

\* webSocket && webSocket.terminate()
Terminate(socket) == Closed

Refired(reconnect) == Armed(reconnect)

\* the timeout has run its callback: the handle stays in timers.reconnect
Fired(reconnect) == [reconnect EXCEPT !.pending = FALSE]

Swallowed(reconnect) == reconnect

\* catch (error) { resetWatchdog() }
Rejected(reconnect) == Armed(reconnect)

\* the sockets from which an aggTrade message can arrive
Live == {i \in DOMAIN sockets :
           sockets[i].state = "open" /\ sockets[i].subscribed}

\* the callback of setInterval in connect: LIST_SUBSCRIPTIONS goes out on the
\* stored socket; on a socket that is no longer open, send() does nothing
\* or throws, depending on the version of ws installed
Heartbeat ==
  /\ program = "polarvol"
  /\ ~crashed
  /\ timers.list
  /\ IF sockets[webSocket].state = "open"
     THEN /\ sockets' = [sockets EXCEPT ![webSocket].asked = TRUE]
          /\ crashed' = FALSE
     ELSE /\ sockets' = sockets
          /\ crashed' \in BOOLEAN
  /\ UNCHANGED <<program, options, size, buffer, threshold, candles, deltas,
                 trade, trades, alert, messages, charts, chartsActive,
                 currentChart, ingested, input, created, evicted, evals,
                 emitted, removed, judged, pc, webSocket, timers, line,
                 logged>>

\* everything the socket actions leave alone
rest == <<program, options, size, buffer, threshold, candles, deltas, trade,
          trades, alert, messages, charts, chartsActive, currentChart,
          crashed, ingested, input, created, evicted, evals, emitted,
          removed, judged, pc, line, logged>>

\* webSocket.on('message'), default: the reply to LIST_SUBSCRIPTIONS arrives
\* on socket i and lists `listed` subscriptions
Reply(i, listed) ==
  /\ program = "polarvol"
  /\ ~crashed
  /\ i \in DOMAIN sockets
  /\ sockets[i].state = "open"
  /\ sockets[i].asked
  /\ sockets' = [sockets EXCEPT ![i].asked = FALSE]
  /\ timers' = IF listed = 1
               THEN [timers EXCEPT !.reconnect = Armed(@)]
               ELSE timers
  /\ UNCHANGED webSocket
  /\ UNCHANGED rest

\* the callback of setTimeout in resetWatchdog, up to await: the timeout has
\* fired and createWebSocket() has made a new socket
Expire ==
  /\ program = "polarvol"
  /\ ~crashed
  /\ timers.reconnect.pending
  /\ Len(sockets) < MaxSockets
  /\ timers' = [timers EXCEPT !.reconnect = Fired(@)]
  /\ sockets' = Append(sockets, Connecting)
  /\ UNCHANGED webSocket
  /\ UNCHANGED rest

\* webSocket.on('open') of an attempt: the promise resolves and
\* updateStore({ webSocket }) terminates the stored socket, stores the new
\* one and calls connect()
Opened(i) ==
  /\ program = "polarvol"
  /\ ~crashed
  /\ i \in DOMAIN sockets
  /\ sockets[i].state = "connecting"
  /\ sockets' = [[sockets EXCEPT ![webSocket] = Terminate(@)]
                   EXCEPT ![i] = Subscribed]
  /\ webSocket' = i
  /\ timers' = [list |-> TRUE, reconnect |-> Armed(timers.reconnect)]
  /\ UNCHANGED rest

\* webSocket.on('error') of an attempt: the promise rejects and the catch
\* of the watchdog callback runs
Failed(i) ==
  /\ program = "polarvol"
  /\ ~crashed
  /\ i \in DOMAIN sockets
  /\ sockets[i].state = "connecting"
  /\ sockets' = [sockets EXCEPT ![i] = Closed]
  /\ timers' = [timers EXCEPT !.reconnect = Rejected(@)]
  /\ UNCHANGED webSocket
  /\ UNCHANGED rest

\* the connection of an open socket is lost; no listener is registered
\* for 'close', and 'error' finds the promise settled
Drop(i) ==
  /\ program = "polarvol"
  /\ ~crashed
  /\ i \in DOMAIN sockets
  /\ sockets[i].state = "open"
  /\ sockets' = [sockets EXCEPT ![i] = Closed]
  /\ UNCHANGED <<webSocket, timers>>
  /\ UNCHANGED rest

\* webSocket.on('message'), case 'aggTrade': a trade arrives on a socket
\* that is open and subscribed
Deliver(raw) == Live # {} /\ TradePolarvol(raw)

NextSocket ==
  \/ Heartbeat
  \/ \E i \in 1..MaxSockets, listed \in 0..1 : Reply(i, listed)
  \/ Expire
  \/ \E i \in 1..MaxSockets : Opened(i)
  \/ \E i \in 1..MaxSockets : Failed(i)
  \/ \E i \in 1..MaxSockets : Drop(i)
  \/ \E raw \in Feed({TRUE}, {Str(100)}, {Str(1)}, {7 * 43200000}) :
       Deliver(raw)

\* program.action of edge.js (polarvol), then start
InitEdge == Init /\ program = "polarvol"

SpecSocket == InitEdge /\ [][NextSocket]_vars

\* resetWatchdog() is called in this step
ReArmed == timers'.reconnect.handle # timers.reconnect.handle

\* the attempt on socket i ends in this step, with 'error' or with 'open'
Fails(i) == sockets[i].state = "connecting" /\ sockets'[i].state = "closed"
Succeeds(i) == sockets[i].state = "connecting" /\ sockets'[i].state = "open"

\* the reply to a heartbeat is handled on socket i in this step
Replies(i) ==
  sockets[i].asked /\ ~sockets'[i].asked /\ sockets'[i].state = "open"

\* C31: when the watchdog expires a reconnect attempt is started; when the
\* attempt fails the watchdog is armed again, so that it can expire and
\* start another; when the attempt succeeds the new socket is the stored
\* one and the trade subscription has been sent on it
ReconnectsUntilConnected ==
  [][/\ timers.reconnect.pending /\ ~timers'.reconnect.pending =>
          /\ Len(sockets') = Len(sockets) + 1
          /\ sockets'[Len(sockets')] = Connecting
     /\ \A i \in DOMAIN sockets :
          /\ Fails(i) => ReArmed /\ timers'.reconnect.pending
          /\ Succeeds(i) =>
               /\ webSocket' = i
               /\ sockets'[i].subscribed
               /\ ReArmed /\ timers'.reconnect.pending]_vars

\* a first attempt failed, a second one succeeded and its socket is stored
ReconnectsUntilConnectedWitness ==
  /\ Len(sockets) = 3
  /\ sockets[2] = Closed
  /\ webSocket = 3
  /\ sockets[3].state = "open" /\ sockets[3].subscribed

\* C32: whatever the order of expiries, completions and replies, at most
\* one socket is open and subscribed, and it is the stored one; the socket
\* stored before is terminated in the step that subscribes its replacement
OneLiveSocket ==
  /\ [](Cardinality(Live) <= 1 /\ Live \subseteq {webSocket})
  /\ [][\A i \in DOMAIN sockets :
          Succeeds(i) /\ webSocket # i =>
            /\ sockets'[webSocket] = Closed
            /\ Live' = {i}]_vars

\* two attempts were in flight together; the later one has opened and
\* replaced the first socket while the earlier one is still connecting
OneLiveSocketWitness ==
  /\ Len(sockets) = 3
  /\ sockets[1] = Closed
  /\ sockets[2].state = "connecting"
  /\ webSocket = 3
  /\ Live = {3}

\* C33 as stated: the watchdog is armed again only by connect and by a
\* heartbeat reply, and a trade leaves both timers as they were
ArmedByConnectOrReplyOnly ==
  [][/\ ReArmed => \E i \in DOMAIN sockets : Succeeds(i) \/ Replies(i)
     /\ ingested' # ingested => timers' = timers]_vars

\* C33: the watchdog is armed again only by connect, by a heartbeat reply
\* and by the catch of a failed reconnect attempt; a trade leaves both
\* timers as they were, so a pending watchdog stays pending
ArmedByConnectReplyOrFailure ==
  [][/\ ReArmed =>
          \E i \in DOMAIN sockets : Succeeds(i) \/ Replies(i) \/ Fails(i)
     /\ ingested' # ingested => timers' = timers]_vars

\* a reconnect attempt has failed, the watchdog is pending again and a
\* trade has arrived on the first socket since
ArmedByConnectReplyOrFailureWitness ==
  /\ Len(sockets) = 2
  /\ sockets[2] = Closed
  /\ webSocket = 1
  /\ timers.reconnect.pending
  /\ ingested > 0

---------------------------------------------------------------------------
(* SpecAlert: trades around a price, the alert key and the clear key of    *)
(* edge.js (polarvol)                                                      *)

\* the 'submit' listener of setAlert with the text of the input box, and
\* updateStore, case 'alert'; the texts entered hold no comma
setAlert(text) ==
  LET dotted == [k \in 1..Len(text) |->
                   IF text[k] = 44 /\ \A j \in 1..(k - 1) : text[j] # 44
                   THEN 46 ELSE text[k]]
      parsed == ParseFloat(dotted)
      value == IF Greater(parsed, 0) THEN parsed ELSE 0
  IN  /\ program = "polarvol"
      /\ ~crashed
      /\ IF trade # <<>>
         THEN /\ alert' = value
              /\ messages' = [messages EXCEPT
                                ![1] = [type |-> "header", alert |-> value]]
         ELSE UNCHANGED <<alert, messages>>
      /\ UNCHANGED <<program, options, size, buffer, threshold, candles,
                     deltas, trade, trades, charts, chartsActive,
                     currentChart, crashed, ingested, input, created,
                     evicted, evals, emitted, removed, judged, pc, sockets,
                     webSocket, timers, line, logged>>

\* screen.key('c', clear)
clear ==
  /\ program = "polarvol"
  /\ ~crashed
  /\ messages' = <<messages[1]>>
  /\ UNCHANGED <<program, options, size, buffer, threshold, candles, deltas,
                 trade, trades, alert, charts, chartsActive, currentChart,
                 crashed, ingested, input, created, evicted, evals, emitted,
                 removed, judged, pc, sockets, webSocket, timers, line,
                 logged>>

\* trades at 99, 100 and 101 in order of time over four candles, alerts
\* entered as "100" and as "abc"
NextAlert ==
  \/ \E raw \in Feed({TRUE}, {Str(99), Str(100), Str(101)}, {Str(1)},
                     {T \in TimesPolarvol : T \div 43200000 <= 10}) :
       InOrder(raw) /\ TradePolarvol(raw)
  \/ \E text \in {Str(100), Malformed} : setAlert(text)
  \/ clear

SpecAlert == InitEdge /\ [][NextAlert]_vars

\* the alert entries that the step has logged
AlertsLogged ==
  {k \in 2..Len(messages') :
     messages'[k].type = "alert" /\ messages'[k].at > logged}

\* C34: a trade fires the alert exactly when an alert is set and the price
\* of the trade before lies strictly on one side of it while the new price
\* is at it or on the other side; the firing step logs one alert entry and
\* deletes the alert, and no other trade changes the alert, so that it
\* cannot fire again before it is set anew
FiresOncePerArming ==
  [][ingested' # ingested =>
       LET new == ParseFloat(input'[1].p)
           reaches ==
             /\ alert # 0
             /\ trade # <<>>
             /\ \/ trade[1].price < alert /\ alert <= new
                \/ trade[1].price > alert /\ alert >= new
       IN  /\ Cardinality(AlertsLogged) = IF reaches THEN 1 ELSE 0
           /\ alert' = IF reaches THEN 0 ELSE alert
           /\ reaches => messages'[1] = [type |-> "header", alert |-> 0]]_vars

\* the alert has fired once, is unset, and a later trade has arrived
FiresOncePerArmingWitness ==
  /\ program = "polarvol"
  /\ alert = 0
  /\ ingested = MaxTrades
  /\ \E k \in 2..Len(messages) :
       messages[k].type = "alert" /\ messages[k].at = 1
  /\ logged = 1

\* C35: the message list starts with the header line and holds no other
\* header; the log entries after it are in newest-first order and number
\* at most MaxMessages (the 100 of the code); a log step at the cap drops
\* the oldest entry, and clear leaves the header alone
HeaderThenNewestFirst ==
  /\ [](program = "polarvol" =>
          /\ messages # <<>>
          /\ messages[1].type = "header"
          /\ \A k \in 2..Len(messages) : messages[k].type # "header"
          /\ \A k \in 2..(Len(messages) - 1) :
               messages[k].at > messages[k + 1].at
          /\ Len(messages) - 1 <= MaxMessages)
  /\ [][/\ logged' # logged =>
            /\ messages'[2].at = logged'
            /\ \A k \in 2..Len(messages) :
                 (\E j \in 2..Len(messages') : messages'[j] = messages[k])
                   <=> k + (logged' - logged) <= MaxMessages + 1
        /\ Len(messages') < Len(messages) =>
            /\ messages' = <<messages[1]>>
            /\ logged' = logged]_vars

\* more entries have been logged than are kept, and the list holds the
\* newest MaxMessages of them
HeaderThenNewestFirstWitness ==
  /\ program = "polarvol"
  /\ logged > MaxMessages
  /\ Len(messages) = MaxMessages + 1
  /\ messages[2].at = logged
  /\ messages[MaxMessages + 1].at = logged - MaxMessages + 1

---------------------------------------------------------------------------
(* SpecCharts: trades in order of time and the n and m keys of part_000    *)

SelectedNoWrap(list, current, previous) ==
  LET found == {k \in 1..Len(list) : list[k] = current}
      index == (IF found = {} THEN -1 ELSE (CHOOSE k \in found : TRUE) - 1)
                 + (IF previous THEN -1 ELSE 1)
  IN  IF index \in 0..(Len(list) - 1) THEN list[index + 1] ELSE 0

\* cycleChart, the chart it selects among two or more: indexOf, one step
\* back or forth, -1 wrapped to the last index and length to 0
Selected(list, current, previous) ==
  LET found == {k \in 1..Len(list) : list[k] = current}
      index == (IF found = {} THEN -1 ELSE (CHOOSE k \in found : TRUE) - 1)
                 + (IF previous THEN -1 ELSE 1)
      wrapped == IF index < 0 THEN Len(list) - 1
                 ELSE IF index = Len(list) THEN 0
                 ELSE index
  IN  list[wrapped + 1]

\* screen.key('n', () => cycleChart(true)), screen.key('m', () => cycleChart())
cycleChart(previous) ==
  /\ program = "multi"
  /\ ~crashed
  /\ currentChart' = IF Len(charts) > 1
                     THEN Selected(charts, currentChart, previous)
                     ELSE currentChart
  /\ UNCHANGED <<program, options, size, buffer, threshold, candles, deltas,
                 trade, trades, alert, messages, charts, chartsActive,
                 crashed, ingested, input, created, evicted, evals, emitted,
                 removed, judged, pc, sockets, webSocket, timers, line,
                 logged>>

\* initialize of part_000
InitCharts == Init /\ program = "multi"

NextCharts ==
  \/ \E raw \in Feed(BOOLEAN, {Str(100)}, {Str(1)},
                     {T \in TimesMulti : T.date = 31}) :
       InOrder(raw) /\ TradeMulti(raw)
  \/ \E previous \in BOOLEAN : cycleChart(previous)

SpecCharts == InitCharts /\ [][NextCharts]_vars

\* C36: the selected chart is unset while the ready list is empty and is
\* one of its members otherwise; the ready list is the configured
\* timeframes with some left out, so it has no duplicates and keeps their
\* order; a key selects the neighbour of the current chart and touches
\* nothing else; next from the last entry gives the first, previous from
\* the first gives the last, and next followed by previous gives the chart
\* started from, in the ready list of the state and in every list of two
\* or three timeframes
SelectionCycles ==
  /\ [](program = "multi" =>
          /\ charts = <<>> => currentChart = 0
          /\ charts # <<>> =>
               currentChart \in {charts[k] : k \in 1..Len(charts)}
          /\ charts = SelectSeq(TIMEFRAMES,
                                LAMBDA tf : tf \in {charts[k] : k \in 1..Len(charts)})
          /\ \A list \in {charts, <<1, 3>>, <<3, 5>>, <<1, 3, 5>>} :
               Len(list) > 1 =>
                 /\ Selected(list, list[Len(list)], FALSE) = list[1]
                 /\ Selected(list, list[1], TRUE) = list[Len(list)]
                 /\ \A k \in 1..Len(list) :
                      /\ Selected(list, Selected(list, list[k], FALSE), TRUE)
                           = list[k]
                      /\ k < Len(list) =>
                           Selected(list, list[k], FALSE) = list[k + 1])
  /\ [][ingested' = ingested /\ currentChart' # currentChart =>
          /\ Len(charts) > 1
          /\ currentChart' \in {Selected(charts, currentChart, TRUE),
                                Selected(charts, currentChart, FALSE)}
          /\ charts' = charts]_vars

\* both timeframes are ready and a key has moved the selection off the
\* first of them
SelectionCyclesWitness ==
  /\ program = "multi"
  /\ Len(charts) = 2
  /\ currentChart = charts[2]

---------------------------------------------------------------------------
(* SpecLine: the highway line of part_000 and of the 5-minute program of   *)
(* edge.js, written for every level within the cap                         *)

getLineNarrow(level) ==
  LET magnitude == Abs(level)
      blocks == magnitude \div 8
      eighths == magnitude - blocks * 8
  IN  [level |-> level, blocks |-> blocks, eighths |-> eighths,
       padding |-> 42 - blocks - (IF eighths # 0 THEN 1 ELSE 0),
       colour |-> IF level > 0 THEN "up" ELSE "down"]

\* getLine and getPartialBlock: the count handed to ' '.repeat, the partial
\* block chosen by eighths (none for 0) and the number of full blocks
getLine(level) ==
  LET magnitude == Abs(level)
      blocks == magnitude \div 8
      eighths == magnitude - blocks * 8
  IN  [level |-> level, blocks |-> blocks, eighths |-> eighths,
       padding |-> (IF program = "multi" THEN 48 ELSE 42) - blocks
                     - (IF eighths # 0 THEN 1 ELSE 0),
       colour |-> IF level > 0 THEN "up" ELSE "down"]

\* draw, trades.map(trade => getLine(trade)) for a trade of the level;
\* ' '.repeat throws a RangeError on a negative count
Render(level) ==
  /\ program \in {"multi", "five"}
  /\ ~crashed
  /\ Abs(level) <= (IF program = "multi" THEN HIGHWAY_LEVEL ELSE MAX_LEVEL)
  /\ IF getLine(level).padding < 0
     THEN crashed' = TRUE /\ line' = line
     ELSE crashed' = FALSE /\ line' = <<getLine(level)>>
  /\ UNCHANGED <<program, options, size, buffer, threshold, candles, deltas,
                 trade, trades, alert, messages, charts, chartsActive,
                 currentChart, ingested, input, created, evicted, evals,
                 emitted, removed, judged, pc, sockets, webSocket, timers,
                 logged>>

NextLine == \E level \in -HIGHWAY_LEVEL..HIGHWAY_LEVEL : Render(level)

SpecLine == InitSwing /\ [][NextLine]_vars

\* C37: for every level within the cap of the program, blocks is
\* floor(|level| / 8), eighths is what is left, between 0 and 7, the
\* padding count is not negative (no line fails to be written), and
\* padding, partial block and full blocks together fill 48 columns in
\* part_000 and 42 in the 5-minute program
LineHasFixedWidth ==
  /\ program \in {"multi", "five"} => ~crashed
  /\ line # <<>> =>
       LET l == line[1]
           magnitude == IF l.level < 0 THEN -l.level ELSE l.level
       IN  /\ l.blocks * 8 <= magnitude
           /\ magnitude < (l.blocks + 1) * 8
           /\ l.eighths = magnitude - 8 * l.blocks
           /\ l.eighths \in 0..7
           /\ l.padding >= 0
           /\ l.padding + (IF l.eighths > 0 THEN 1 ELSE 0) + l.blocks
                = IF program = "multi" THEN 48 ELSE 42

\* part_000 has written the line of the lowest level it can hold
LineHasFixedWidthWitness ==
  /\ program = "multi"
  /\ line # <<>>
  /\ line[1].level = -HIGHWAY_LEVEL
  /\ line[1].blocks = 46
  /\ line[1].padding = 2

===========================================================================
